---- MODULE Spec2Model ----
(* Model of the Discord deployment bot of src/index.go: the message       *)
(* handler deploy, the executor goroutine it spawns, the audit webhook    *)
(* sendDiscordWebhookMessage and the process lifecycle of main.           *)
(*                                                                        *)
(* Strings are sequences of atoms.  An atom is either a single character  *)
(* that matters to the code ("!", " ", a tab) or a run of characters      *)
(* none of which is a separator ("deploy", "Deploy", "ma;n").  Split,  *)
(* TrimPrefix, HasPrefix, ToLower, ReplaceAll and the branch regexp are   *)
(* computed on these sequences the way the Go functions compute them on   *)
(* bytes.                                                                 *)
EXTENDS Integers, Sequences, FiniteSets, TLC

VARIABLES data, Commands, proc, last, attempts

vars == <<data, Commands, proc, last, attempts>>

(* ------------------------------ bounds ------------------------------- *)

\* Number of deploy attempts (executor goroutines) created in one run.
MaxAttempts == 2

(* ------------------------------ strings ------------------------------ *)

TAB == "\t"

\* Atoms made only of characters of [a-zA-Z0-9_-].
WordAtoms == {"deploy", "Deploy", "DEPLOY", "status", "main", "Main", "MAIN",
              "dev", "k1", "k2", "nokey", "extra"}

\* unicode.ToLower on the characters of one atom.
LowerAtom(a) ==
    CASE a \in {"Deploy", "DEPLOY"} -> "deploy"
      [] a \in {"Main", "MAIN"}     -> "main"
      [] OTHER                      -> a

\* strings.ToLower
ToLower(s) == [i \in 1..Len(s) |-> LowerAtom(s[i])]

\* strings.HasPrefix(s, "!")
HasPrefix(s) == Len(s) >= 1 /\ s[1] = "!"

\* strings.TrimPrefix(s, "!")
TrimPrefix(s) == IF HasPrefix(s) THEN SubSeq(s, 2, Len(s)) ELSE s

\* strings.Split(s, " "): the pieces between single spaces, empty pieces kept.
RECURSIVE SplitFrom(_, _, _)
SplitFrom(s, i, cur) ==
    IF i > Len(s) THEN <<cur>>
    ELSE IF s[i] = " " THEN <<cur>> \o SplitFrom(s, i + 1, <<>>)
    ELSE SplitFrom(s, i + 1, Append(cur, s[i]))

Split(s) == SplitFrom(s, 1, <<>>)

\* strings.ReplaceAll(s, old, new) for a one-atom placeholder old.
RECURSIVE ReplaceAll(_, _, _)
ReplaceAll(s, old, new) ==
    IF s = <<>> THEN <<>>
    ELSE (IF Head(s) = old THEN new ELSE <<Head(s)>>) \o ReplaceAll(Tail(s), old, new)

\* regexp ^[a-zA-Z0-9_-]+$
MatchString(s) == Len(s) >= 1 /\ \A i \in 1..Len(s) : s[i] \in WordAtoms


(* --------------------------- configuration --------------------------- *)

LOCATION == "${LOCATION}"
BRANCH == "${BRANCH}"

\* Values of BRANCH in .env that getConfig accepts (any non-blank string).
Branches == {<<"main">>, <<"Main">>}

\* The Config record main stores in data.
Configs == [Branch : Branches,
            DeploymentLocation : {<<"/srv/app">>},
            DeploymentChannel : {"deployments"},
            DeploymentRole : {"deployer"}]

\* A dictionary.json: key -> shell command template.
Dictionary ==
    (<<"k1">> :> <<"cd ", LOCATION, " && git pull origin ", BRANCH,
                   " && ", LOCATION, "/restart.sh ", BRANCH>>)
    @@ (<<"k2">> :> <<"make -C ", LOCATION, " deploy">>)

(* ------------------------------ inputs ------------------------------- *)

\* session.GuildMember: an error, or the member with its roles.
Members == {[err |-> TRUE, roles |-> {}],
            [err |-> FALSE, roles |-> {"member"}],
            [err |-> FALSE, roles |-> {"member", "deployer"}]}

\* Message texts: no prefix; accepted under Branch = "main" (plain, and in
\* another letter case with a trailing token); unknown key; other branch;
\* malformed branch; other branch and unknown key; two tokens; another
\* command with three tokens and with one; two spaces; tabs for spaces.
Contents == {
    <<"deploy", " ", "main", " ", "k1">>,
    <<"!", "deploy", " ", "main", " ", "k1">>,
    <<"!", "Deploy", " ", "Main", " ", "k2", " ", "extra">>,
    <<"!", "deploy", " ", "main", " ", "nokey">>,
    <<"!", "deploy", " ", "dev", " ", "k1">>,
    <<"!", "deploy", " ", "ma;n", " ", "k2">>,
    <<"!", "deploy", " ", "dev", " ", "nokey">>,
    <<"!", "deploy", " ", "main">>,
    <<"!", "status", " ", "main", " ", "k1">>,
    <<"!", "status">>,
    <<"!", "deploy", " ", " ", "main", " ", "k1">>,
    <<"!", "deploy", TAB, "main", TAB, "k1">> }

\* A discordgo.MessageCreate event together with what the role lookup returns
\* for its author.
Messages == [bot : BOOLEAN,
             channel : {"deployments", "general"},
             member : Members,
             content : Contents]

\* How cmd.CombinedOutput can return: exit status 0, a non-zero exit status,
\* or the process killed when the 2-minute context expires.
Results == {"exit0", "exit1", "timeout"}

(* ----------------------- sendDiscordWebhookMessage ------------------- *)

\* Variant: the test of line 40 inverted.
Payload_Inverted(status, branch) ==
    [description |-> IF status /= "success" THEN "Deployment Successful!"
                     ELSE "Deployment Failed!",
     color |-> IF status /= "success" THEN "0x008000" ELSE "0x800000",
     branch |-> branch]

\* The JSON card posted to data.DeploymentLogWebhook, reduced to the fields
\* that depend on the arguments.
Payload(status, branch) ==
    [description |-> IF status = "success" THEN "Deployment Successful!"
                     ELSE "Deployment Failed!",
     color |-> IF status = "success" THEN "0x008000" ELSE "0x800000",
     branch |-> branch]

(* ------------------------- the handler deploy ------------------------ *)

\* Variant: line 117 without the test of message.Author.Bot.
Ignored_BotsPass(m) ==
    m.channel /= data.DeploymentChannel \/ ~HasPrefix(m.content)

\* Line 117: the event is dropped without looking the author up.
Ignored(m) ==
    m.bot \/ m.channel /= data.DeploymentChannel \/ ~HasPrefix(m.content)

\* Variant: line 126 accepting a member with any role.
HasRole_AnyRole(member) == member.roles /= {}

\* Line 126: slices.Contains(member.Roles, data.DeploymentRole)
HasRole(member) == data.DeploymentRole \in member.roles

\* Line 131
Args(m) == Split(TrimPrefix(m.content))

\* Variant: line 143 never taking the miss branch.
KeyOK_Always(key) == TRUE

\* Line 142: cache, option := Commands[key]
KeyOK(key) == key \in DOMAIN Commands

Lookup(key) == IF key \in DOMAIN Commands THEN Commands[key] ELSE <<>>

\* Variant: line 148 without the comparison with data.Branch.
BranchOK_PatternOnly(branch) == MatchString(branch)

\* Line 148
BranchOK(branch) == MatchString(branch) /\ branch = data.Branch

\* The texts of the chat messages (the backquotes of the Go format strings
\* are left out).
NoPermission == <<"You do not have permission to deploy.">>
InvalidCommand(command) == <<"Invalid command (">> \o command \o <<") specified.">>
InvalidKey(key) == <<"Invalid key (">> \o key \o <<") specified.">>
InvalidBranch(branch) == <<"Invalid branch (">> \o branch \o <<") specified.">>
Ongoing == <<"Deploying ongoing...">>

Outcome(replies, hooks, spawn, key, branch) ==
    [replies |-> replies, hooks |-> hooks, spawn |-> spawn,
     key |-> key, branch |-> branch]

Nothing == Outcome(<<>>, <<>>, FALSE, <<>>, <<>>)

\* Variant: line 137 letting every command name through.
IsDeploy_Any(command) == TRUE

\* Line 137
IsDeploy(command) == command = <<"deploy">>

\* Variant: the branch check of lines 148-153 placed before the key lookup
\* of lines 142-146.
Handle_BranchFirst(m) ==
    IF Ignored(m) THEN Nothing
    ELSE IF m.member.err THEN Nothing
    ELSE IF ~HasRole(m.member) THEN Outcome(<<NoPermission>>, <<>>, FALSE, <<>>, <<>>)
    ELSE LET args == Args(m) IN
    IF Len(args) < 3 THEN Nothing
    ELSE LET command == ToLower(args[1])
             branch == ToLower(args[2])
             key == args[3] IN
    IF ~IsDeploy(command)
    THEN Outcome(<<InvalidCommand(command)>>, <<>>, FALSE, <<>>, <<>>)
    ELSE IF ~BranchOK(branch)
    THEN Outcome(<<InvalidBranch(branch)>>, <<Payload("failed", branch)>>,
                 FALSE, <<>>, <<>>)
    ELSE IF ~KeyOK(key)
    THEN Outcome(<<InvalidKey(key)>>, <<>>, FALSE, <<>>, <<>>)
    ELSE Outcome(<<Ongoing>>, <<>>, TRUE, key, branch)

\* What one call of deploy does before it returns: the chat messages it
\* sends, the webhook posts it makes, and whether it starts the goroutine
\* (with the key and branch the goroutine captures).
Handle(m) ==
    IF Ignored(m) THEN Nothing
    ELSE IF m.member.err THEN Nothing
    ELSE IF ~HasRole(m.member) THEN Outcome(<<NoPermission>>, <<>>, FALSE, <<>>, <<>>)
    ELSE LET args == Args(m) IN
    IF Len(args) < 3 THEN Nothing
    ELSE LET command == ToLower(args[1])
             branch == ToLower(args[2])
             key == args[3] IN
    IF ~IsDeploy(command)
    THEN Outcome(<<InvalidCommand(command)>>, <<>>, FALSE, <<>>, <<>>)
    ELSE IF ~KeyOK(key)
    THEN Outcome(<<InvalidKey(key)>>, <<>>, FALSE, <<>>, <<>>)
    ELSE IF ~BranchOK(branch)
    THEN Outcome(<<InvalidBranch(branch)>>, <<Payload("failed", branch)>>,
                 FALSE, <<>>, <<>>)
    ELSE Outcome(<<Ongoing>>, <<>>, TRUE, key, branch)

(* ----------------------- the executor goroutine ----------------------- *)

\* Variant: line 167 seeing only a non-zero exit status as an error.
Failed_ExitOnly(result) == result = "exit1"

\* Line 167: err != nil
Failed(result) == result /= "exit0"

\* err.Error() of an *exec.ExitError
ErrText(result) == IF result = "timeout" THEN "signal: killed" ELSE "exit status 1"

\* Line 168
FailureText(result) == <<"Deployment Failed: ", ErrText(result)>>

\* Lines 174-177
SuccessText(branch) ==
    <<"Deployment successful; wait 10s before restart.">>
    \o (IF branch /= data.Branch
        THEN <<" Make sure to return to main branch once done (e.g., !deploy ">>
             \o data.Branch \o <<" confirm).">>
        ELSE <<>>)

\* strings.Replace(s, old, new, 1)
RECURSIVE ReplaceOnce(_, _, _)
ReplaceOnce(s, old, new) ==
    IF s = <<>> THEN <<>>
    ELSE IF Head(s) = old THEN new \o Tail(s)
    ELSE <<Head(s)>> \o ReplaceOnce(Tail(s), old, new)

\* Variant: lines 158-159 replacing only the first occurrence of each
\* placeholder.
CommandLine_Once(cache, branch) ==
    ReplaceOnce(ReplaceOnce(cache, LOCATION, data.DeploymentLocation), BRANCH, branch)

\* Lines 158-159
CommandLine(cache, branch) ==
    ReplaceAll(ReplaceAll(cache, LOCATION, data.DeploymentLocation), BRANCH, branch)

\* Variant: the goroutine given the branch token as typed, args[1], instead
\* of the lower-cased branch of line 136.
NewAttempt_RawBranch(m, key, branch) ==
    [msg |-> m, key |-> key, cache |-> Lookup(key), branch |-> Args(m)[2],
     pc |-> "l158", result |-> "none", cmdline |-> <<>>,
     chat |-> <<Ongoing>>, hooks |-> <<>>, err |-> FALSE]

\* The goroutine started at line 157 for message m.  pc names the line the
\* goroutine is about to execute (l166: blocked in cmd.CombinedOutput).
NewAttempt(m, key, branch) ==
    [msg |-> m, key |-> key, cache |-> Lookup(key), branch |-> branch,
     pc |-> "l158", result |-> "none", cmdline |-> <<>>,
     chat |-> <<Ongoing>>, hooks |-> <<>>, err |-> FALSE]

(* ------------------------------- state -------------------------------- *)

\* data, Commands : the globals main sets before the session opens
\* proc           : "running", "stopped" (interrupt, main returned) or
\*                  "fatal" (log.Fatalf called os.Exit(1))
\* last           : the event deploy handled last with what the call did,
\*                  as a sequence of length 0 (none yet) or 1
\* attempts       : the goroutines started so far, in order of creation
\*
\* session.ChannelMessageSend and http.Post return an error that the code
\* drops.  The actions that call them take that outcome as the parameter
\* err; the field err of last and of an attempt records that a call made
\* by the handler, or by the handler and the goroutine of the attempt,
\* returned an error.
Init ==
    /\ data \in Configs
    /\ Commands = Dictionary
    /\ proc = "running"
    /\ last = <<>>
    /\ attempts = <<>>

Ids == 1..Len(attempts)

\* Variant: lines 157-181 without the go statement: the handler runs the
\* command itself, so the next event is handled when that has returned.
deploy_Serial(m, err) ==
    /\ proc = "running"
    /\ Len(attempts) < MaxAttempts
    /\ \A a \in Ids : attempts[a].pc = "end"
    /\ LET r == Handle(m)
           e == err /\ (r.replies /= <<>> \/ r.hooks /= <<>>) IN
       /\ last' = <<[msg |-> m, replies |-> r.replies, hooks |-> r.hooks,
                     spawn |-> r.spawn, err |-> e]>>
       /\ attempts' = IF r.spawn
                      THEN Append(attempts,
                                  [NewAttempt(m, r.key, r.branch) EXCEPT !.err = e])
                      ELSE attempts
    /\ UNCHANGED <<data, Commands, proc>>

\* deploy(session, message), lines 116-182.
deploy(m, err) ==
    /\ proc = "running"
    /\ Len(attempts) < MaxAttempts
    /\ LET r == Handle(m)
           e == err /\ (r.replies /= <<>> \/ r.hooks /= <<>>) IN
       /\ last' = <<[msg |-> m, replies |-> r.replies, hooks |-> r.hooks,
                     spawn |-> r.spawn, err |-> e]>>
       /\ attempts' = IF r.spawn
                      THEN Append(attempts,
                                  [NewAttempt(m, r.key, r.branch) EXCEPT !.err = e])
                      ELSE attempts
    /\ UNCHANGED <<data, Commands, proc>>

\* Variant: line 166 starting the command with cmd.Start, which returns a nil
\* error at once, instead of waiting for it in cmd.CombinedOutput.
Start_NoWait(a) ==
    /\ proc = "running"
    /\ attempts[a].pc = "l158"
    /\ attempts' = [attempts EXCEPT
                      ![a].cmdline = CommandLine(attempts[a].cache, attempts[a].branch),
                      ![a].pc = "l174"]
    /\ UNCHANGED <<data, Commands, proc, last>>

\* Variant: lines 158-159 storing the resolved command line back into
\* Commands[key].
Start_StoresResolved(a) ==
    /\ proc = "running"
    /\ attempts[a].pc = "l158"
    /\ attempts' = [attempts EXCEPT
                      ![a].cmdline = CommandLine(attempts[a].cache, attempts[a].branch),
                      ![a].pc = "l166"]
    /\ Commands' = [Commands EXCEPT
                      ![attempts[a].key] = CommandLine(attempts[a].cache, attempts[a].branch)]
    /\ UNCHANGED <<data, proc, last>>

\* Lines 158-166: the command line is built and bash is started.
Start(a) ==
    /\ proc = "running"
    /\ attempts[a].pc = "l158"
    /\ attempts' = [attempts EXCEPT
                      ![a].cmdline = CommandLine(attempts[a].cache, attempts[a].branch),
                      ![a].pc = "l166"]
    /\ UNCHANGED <<data, Commands, proc, last>>

\* Lines 166-167: cmd.CombinedOutput returns; the 2-minute context makes it
\* return at the latest when the process is killed.
Exit(a, r) ==
    /\ proc = "running"
    /\ attempts[a].pc = "l166"
    /\ attempts' = [attempts EXCEPT
                      ![a].result = r,
                      ![a].pc = IF Failed(r) THEN "l168" ELSE "l174"]
    /\ UNCHANGED <<data, Commands, proc, last>>

\* Line 168
SendFailure(a, err) ==
    /\ proc = "running"
    /\ attempts[a].pc = "l168"
    /\ attempts' = [attempts EXCEPT
                      ![a].chat = Append(@, FailureText(attempts[a].result)),
                      ![a].pc = "l169",
                      ![a].err = @ \/ err]
    /\ UNCHANGED <<data, Commands, proc, last>>

\* Line 169
PostFailure(a, err) ==
    /\ proc = "running"
    /\ attempts[a].pc = "l169"
    /\ attempts' = [attempts EXCEPT
                      ![a].hooks = Append(@, Payload("failed", attempts[a].branch)),
                      ![a].pc = "l170",
                      ![a].err = @ \/ err]
    /\ UNCHANGED <<data, Commands, proc, last>>

\* Variant: line 170 logging without exiting and line 171 missing, so that
\* the goroutine goes on at line 174.
Fatalf_Continue(a) ==
    /\ proc = "running"
    /\ attempts[a].pc = "l170"
    /\ attempts' = [attempts EXCEPT ![a].pc = "l174"]
    /\ UNCHANGED <<data, Commands, proc, last>>

\* Line 170: log.Fatalf prints and calls os.Exit(1): the whole process ends.
Fatalf(a) ==
    /\ proc = "running"
    /\ attempts[a].pc = "l170"
    /\ proc' = "fatal"
    /\ UNCHANGED <<data, Commands, last, attempts>>

\* Variant: line 179 checking the error of ChannelMessageSend and reporting
\* the deployment as failed when the message could not be sent.
SendSuccess_FailOnError(a, err) ==
    /\ proc = "running"
    /\ attempts[a].pc = "l174"
    /\ attempts' = [attempts EXCEPT
                      ![a].chat = Append(@, SuccessText(attempts[a].branch)),
                      ![a].hooks = IF err THEN Append(@, Payload("failed", attempts[a].branch))
                                   ELSE @,
                      ![a].pc = IF err THEN "end" ELSE "l180",
                      ![a].err = @ \/ err]
    /\ UNCHANGED <<data, Commands, proc, last>>

\* Lines 174-179
SendSuccess(a, err) ==
    /\ proc = "running"
    /\ attempts[a].pc = "l174"
    /\ attempts' = [attempts EXCEPT
                      ![a].chat = Append(@, SuccessText(attempts[a].branch)),
                      ![a].pc = "l180",
                      ![a].err = @ \/ err]
    /\ UNCHANGED <<data, Commands, proc, last>>

\* Line 180, after which the goroutine returns.
PostSuccess(a, err) ==
    /\ proc = "running"
    /\ attempts[a].pc = "l180"
    /\ attempts' = [attempts EXCEPT
                      ![a].hooks = Append(@, Payload("success", attempts[a].branch)),
                      ![a].pc = "end",
                      ![a].err = @ \/ err]
    /\ UNCHANGED <<data, Commands, proc, last>>

\* Lines 210-217: main receives os.Interrupt, closes the session and returns.
Interrupt ==
    /\ proc = "running"
    /\ proc' = "stopped"
    /\ UNCHANGED <<data, Commands, last, attempts>>

\* Every call of a reporting sink returns without an error.
Next ==
    \/ \E m \in Messages : deploy(m, FALSE)
    \/ \E a \in Ids : Start(a)
    \/ \E a \in Ids, r \in Results : Exit(a, r)
    \/ \E a \in Ids : SendFailure(a, FALSE)
    \/ \E a \in Ids : PostFailure(a, FALSE)
    \/ \E a \in Ids : Fatalf(a)
    \/ \E a \in Ids : SendSuccess(a, FALSE)
    \/ \E a \in Ids : PostSuccess(a, FALSE)
    \/ Interrupt

\* One step of the goroutine of attempt a.
Executor(a) ==
    /\ a \in Ids
    /\ \/ Start(a)
       \/ \E r \in Results : Exit(a, r)
       \/ \E err \in BOOLEAN : SendFailure(a, err)
       \/ \E err \in BOOLEAN : PostFailure(a, err)
       \/ Fatalf(a)
       \/ \E err \in BOOLEAN : SendSuccess(a, err)
       \/ \E err \in BOOLEAN : PostSuccess(a, err)

Spec == Init /\ [][Next]_vars

\* The Go scheduler runs every runnable goroutine, and every subprocess
\* returns within its budget: each executor step that stays enabled is taken.
FairSpec == Spec /\ \A a \in 1..MaxAttempts : WF_vars(Executor(a))

\* Events of an authorized member: a valid command, a command for another
\* branch and a command with an unknown key.
SinkMessages ==
    {m \in Messages :
        /\ ~m.bot
        /\ m.channel = "deployments"
        /\ m.member = [err |-> FALSE, roles |-> {"member", "deployer"}]
        /\ m.content \in {<<"!", "deploy", " ", "main", " ", "k1">>,
                          <<"!", "deploy", " ", "dev", " ", "k1">>,
                          <<"!", "deploy", " ", "main", " ", "nokey">>}}

\* Every call of a reporting sink returns with or without an error.
SinkNext ==
    \/ \E m \in SinkMessages, err \in BOOLEAN : deploy(m, err)
    \/ \E a \in Ids : Start(a)
    \/ \E a \in Ids, r \in Results : Exit(a, r)
    \/ \E a \in Ids, err \in BOOLEAN : SendFailure(a, err)
    \/ \E a \in Ids, err \in BOOLEAN : PostFailure(a, err)
    \/ \E a \in Ids : Fatalf(a)
    \/ \E a \in Ids, err \in BOOLEAN : SendSuccess(a, err)
    \/ \E a \in Ids, err \in BOOLEAN : PostSuccess(a, err)
    \/ Interrupt

SinkSpec == Init /\ [][SinkNext]_vars

\* Valid commands under Branch = "main": each key of the dictionary named in
\* two texts that differ in letter case and in a trailing token, the plain
\* text by one author and the other text by an author with other roles.
ExecMessages ==
    {[bot |-> FALSE, channel |-> "deployments",
      member |-> [err |-> FALSE, roles |-> {"member", "deployer"}],
      content |-> c] :
        c \in {<<"!", "deploy", " ", "main", " ", "k1">>,
               <<"!", "deploy", " ", "main", " ", "k2">>}}
    \cup
    {[bot |-> FALSE, channel |-> "deployments",
      member |-> [err |-> FALSE, roles |-> {"deployer"}],
      content |-> c] :
        c \in {<<"!", "Deploy", " ", "Main", " ", "k1", " ", "extra">>,
               <<"!", "DEPLOY", " ", "MAIN", " ", "k2", " ", "extra">>}}

ExecNext ==
    \/ \E m \in ExecMessages : deploy(m, FALSE)
    \/ \E a \in Ids : Start(a)
    \/ \E a \in Ids, r \in Results : Exit(a, r)
    \/ \E a \in Ids : SendFailure(a, FALSE)
    \/ \E a \in Ids : PostFailure(a, FALSE)
    \/ \E a \in Ids : Fatalf(a)
    \/ \E a \in Ids : SendSuccess(a, FALSE)
    \/ \E a \in Ids : PostSuccess(a, FALSE)
    \/ Interrupt

ExecSpec == Init /\ [][ExecNext]_vars

(* ------------------- vocabulary of the properties --------------------- *)

Handled == last /= <<>>
LastMsg == last[1].msg
Silent(h) == h.replies = <<>> /\ h.hooks = <<>> /\ ~h.spawn

\* The tokens of a message as the parser delivers them: command and branch
\* lower-cased, the key as typed.
Tokens(m) == Split(TrimPrefix(m.content))
CommandTok(m) == ToLower(Tokens(m)[1])
BranchTok(m) == ToLower(Tokens(m)[2])
KeyTok(m) == Tokens(m)[3]

\* The message is dropped by the first part of the Authorization Gate.
Dropped(m) ==
    \/ m.bot
    \/ m.channel /= data.DeploymentChannel
    \/ ~HasPrefix(m.content)
    \/ m.member.err

\* The message passes the Authorization Gate.
Authorized(m) == ~Dropped(m) /\ data.DeploymentRole \in m.member.roles

\* The message is an authorized, well-formed deploy command.
DeployCommand(m) ==
    /\ Authorized(m)
    /\ Len(Tokens(m)) >= 3
    /\ CommandTok(m) = <<"deploy">>

BranchAllowed(m) == MatchString(BranchTok(m)) /\ BranchTok(m) = data.Branch

PassesEveryCheck(m) ==
    /\ DeployCommand(m)
    /\ KeyTok(m) \in DOMAIN Dictionary
    /\ BranchAllowed(m)

\* The subprocess of attempt a has been started.
Started(a) == attempts[a].pc /= "l158"

(* ------------------------------- C1 ----------------------------------- *)

\* C1: a subprocess has been started for a message only if the message
\* passed every check: not a bot, configured channel, "!" prefix, role lookup
\* succeeded and holds the configured role, command token "deploy", key in
\* the Command Dictionary, branch token matching the pattern and equal to
\* the configured branch (command and branch tokens as the parser lower-cases
\* them).
C1_StartedOnlyIfChecked ==
    \A a \in Ids : Started(a) => PassesEveryCheck(attempts[a].msg)

C1_Witness ==
    \E a \in Ids : Started(a) /\ PassesEveryCheck(attempts[a].msg)

(* ------------------------------- C2 ----------------------------------- *)

\* C2: a message of a bot, in another channel, without the "!" prefix or
\* whose role lookup fails produces no chat reply, no subprocess and no
\* webhook call.
C2_DroppedSilently ==
    /\ Handled /\ Dropped(LastMsg) => Silent(last[1])
    /\ \A a \in Ids : ~Dropped(attempts[a].msg)

C2_Witness ==
    /\ Handled
    /\ LastMsg.member.err
    /\ ~LastMsg.bot
    /\ LastMsg.channel = data.DeploymentChannel
    /\ LastMsg.content = <<"!", "deploy", " ", "main", " ", "k1">>
    /\ attempts /= <<>>

(* ------------------------------- C3 ----------------------------------- *)

Unprivileged(m) == ~Dropped(m) /\ data.DeploymentRole \notin m.member.roles

\* C3 as stated: a non-bot message in the configured channel with the "!"
\* prefix whose author lacks the configured role gets no chat reply, no
\* subprocess and no webhook call.
C3_Original ==
    Handled /\ Unprivileged(LastMsg) => Silent(last[1])

\* C3 amended: such a message gets exactly one chat reply, "You do not have
\* permission to deploy.", and neither a subprocess nor a webhook call.
C3_DeniedWithReply ==
    /\ Handled /\ Unprivileged(LastMsg) =>
          /\ last[1].replies = <<(<<"You do not have permission to deploy.">>)>>
          /\ last[1].hooks = <<>>
          /\ ~last[1].spawn
    /\ \A a \in Ids : ~Unprivileged(attempts[a].msg)

C3_Witness ==
    /\ Handled
    /\ Unprivileged(LastMsg)
    /\ LastMsg.content = <<"!", "deploy", " ", "main", " ", "k1">>
    /\ data.Branch = <<"main">>

(* ------------------------------- C4 ----------------------------------- *)

IsPrefix(s, t) == Len(s) <= Len(t) /\ s = SubSeq(t, 1, Len(s))

\* Template t with each placeholder replaced in place.
RECURSIVE Flatten(_)
Flatten(ss) == IF ss = <<>> THEN <<>> ELSE Head(ss) \o Flatten(Tail(ss))

Substituted(t) ==
    Flatten([i \in 1..Len(t) |->
                CASE t[i] = LOCATION -> data.DeploymentLocation
                  [] t[i] = BRANCH   -> data.Branch
                  [] OTHER           -> <<t[i]>>])

InProgressMsg == <<"Deploying ongoing...">>
SuccessMsg == <<"Deployment successful; wait 10s before restart.">>
SuccessCard ==
    [description |-> "Deployment Successful!", color |-> "0x008000",
     branch |-> data.Branch]
FailedCard(branch) ==
    [description |-> "Deployment Failed!", color |-> "0x800000",
     branch |-> branch]

\* C4: for an authorized deploy of the configured branch and a valid key whose
\* command exits 0: the chat shows one "in progress" message and then one
\* success message and nothing else, the command line is the key's template
\* with every ${LOCATION} replaced by the configured location and every
\* ${BRANCH} by the configured branch, and the one webhook post, made after
\* the success message, carries the success card; all of them are there when
\* the executor ends.
C4_SuccessReported ==
    \A a \in Ids : attempts[a].result = "exit0" =>
        LET at == attempts[a] IN
        /\ PassesEveryCheck(at.msg)
        /\ at.cmdline = Substituted(Dictionary[KeyTok(at.msg)])
        /\ Len(at.chat) >= 1
        /\ IsPrefix(at.chat, <<InProgressMsg, SuccessMsg>>)
        /\ IsPrefix(at.hooks, <<SuccessCard>>)
        /\ (at.hooks /= <<>> => Len(at.chat) = 2)
        /\ (at.pc = "end" => Len(at.chat) = 2 /\ Len(at.hooks) = 1)

C4_Witness ==
    \E a \in Ids :
        /\ attempts[a].result = "exit0"
        /\ attempts[a].pc = "end"
        /\ attempts[a].key = <<"k1">>
        /\ Len(attempts[a].hooks) = 1

(* ------------------------------- C5 ----------------------------------- *)

ErrorDetail(result) ==
    CASE result = "exit1"   -> "exit status 1"
      [] result = "timeout" -> "signal: killed"

\* C5: for an authorized deploy of the configured branch and a valid key whose
\* command exits non-zero or is killed at the 2-minute budget: after the
\* "in progress" message the chat shows one failure message with the error
\* detail and nothing else, the one webhook post carries the failed card, both
\* are there once the executor has reported, and neither a success message
\* nor a success card is ever produced.
C5_FailureReported ==
    \A a \in Ids : attempts[a].result \in {"exit1", "timeout"} =>
        LET at == attempts[a]
            failure == <<"Deployment Failed: ", ErrorDetail(at.result)>> IN
        /\ PassesEveryCheck(at.msg)
        /\ at.pc \in {"l168", "l169", "l170"}
        /\ Len(at.chat) >= 1
        /\ IsPrefix(at.chat, <<InProgressMsg, failure>>)
        /\ IsPrefix(at.hooks, <<FailedCard(data.Branch)>>)
        /\ (at.hooks /= <<>> => Len(at.chat) = 2)
        /\ (at.pc = "l170" => Len(at.chat) = 2 /\ Len(at.hooks) = 1)

C5_Witness ==
    \E a \in Ids :
        /\ attempts[a].result = "timeout"
        /\ attempts[a].pc = "l170"
        /\ Len(attempts[a].hooks) = 1
        /\ proc = "fatal"

(* ------------------------------- C6 ----------------------------------- *)

\* C6: an authorized deploy command whose key is in the dictionary and whose
\* branch token is malformed or differs from the configured branch gets one
\* "invalid branch" reply and one webhook post with the failed card, and
\* starts no subprocess.
C6_InvalidBranchAudited ==
    /\ Handled /\ DeployCommand(LastMsg) /\ KeyTok(LastMsg) \in DOMAIN Dictionary
               /\ ~BranchAllowed(LastMsg) =>
          /\ last[1].replies =
                <<(<<"Invalid branch (">> \o BranchTok(LastMsg) \o <<") specified.">>)>>
          /\ last[1].hooks = <<FailedCard(BranchTok(LastMsg))>>
          /\ ~last[1].spawn
    /\ \A a \in Ids : BranchAllowed(attempts[a].msg)

C6_Witness ==
    /\ Handled
    /\ DeployCommand(LastMsg)
    /\ KeyTok(LastMsg) = <<"k1">>
    /\ BranchTok(LastMsg) = <<"dev">>
    /\ Len(last[1].hooks) = 1

(* ------------------------------- C7 ----------------------------------- *)

\* C7: an authorized deploy command naming the configured branch and a key
\* that is not in the Command Dictionary gets one "invalid key" reply; no
\* subprocess is run and no webhook post is made.
C7_InvalidKeyUnaudited ==
    /\ Handled /\ DeployCommand(LastMsg) /\ BranchAllowed(LastMsg)
               /\ KeyTok(LastMsg) \notin DOMAIN Dictionary =>
          /\ last[1].replies =
                <<(<<"Invalid key (">> \o KeyTok(LastMsg) \o <<") specified.">>)>>
          /\ last[1].hooks = <<>>
          /\ ~last[1].spawn
    /\ \A a \in Ids : KeyTok(attempts[a].msg) \in DOMAIN Dictionary

C7_Witness ==
    /\ Handled
    /\ DeployCommand(LastMsg)
    /\ BranchAllowed(LastMsg)
    /\ KeyTok(LastMsg) = <<"nokey">>
    /\ Len(last[1].replies) = 1

(* ------------------------------- C8 ----------------------------------- *)

\* C8: a message that passes the Authorization Gate with fewer than 3 tokens
\* after the "!" gets exactly one chat reply (the "missing fields" usage
\* message), and causes no subprocess and no webhook call.
C8_UsageReply ==
    Handled /\ Authorized(LastMsg) /\ Len(Tokens(LastMsg)) < 3 =>
        /\ Len(last[1].replies) = 1
        /\ last[1].hooks = <<>>
        /\ ~last[1].spawn

(* ------------------------------- C9 ----------------------------------- *)

\* Attempt a exists: its executor has been spawned.
Spawned(a) == a \in Ids

\* Attempt a has reached a terminal outcome and reported it in the chat and
\* to the webhook.
Reported(a) ==
    /\ a \in Ids
    /\ Len(attempts[a].chat) = 2
    /\ Len(attempts[a].hooks) = 1

\* C9: under fair scheduling every spawned executor eventually reaches a
\* terminal outcome and has it reported, whatever the other attempts do
\* (unless the operator interrupts the process).
C9_EveryAttemptReports ==
    \A a \in 1..MaxAttempts : Spawned(a) ~> (Reported(a) \/ proc = "stopped")

(* ------------------------------- C10 ---------------------------------- *)

HasSuccess(at) ==
    \/ \E i \in 1..Len(at.chat) : at.chat[i][1] = "Deployment successful; wait 10s before restart."
    \/ \E i \in 1..Len(at.hooks) : at.hooks[i].description = "Deployment Successful!"

HasFailed(at) ==
    \/ \E i \in 1..Len(at.chat) : at.chat[i][1] = "Deployment Failed: "
    \/ \E i \in 1..Len(at.hooks) : at.hooks[i].description = "Deployment Failed!"

\* C10: in every reachable state no deploy attempt has both a success and a
\* failed outcome, and no attempt, executed or refused by the handler, has
\* made more than one webhook post.
C10_OneOutcomeOneAudit ==
    /\ \A a \in Ids :
          /\ ~(HasSuccess(attempts[a]) /\ HasFailed(attempts[a]))
          /\ Len(attempts[a].hooks) <= 1
    /\ Handled => Len(last[1].hooks) <= 1 /\ (last[1].spawn => last[1].hooks = <<>>)

C10_Witness ==
    \E a, b \in Ids :
        /\ attempts[a].pc = "end" /\ HasSuccess(attempts[a])
        /\ attempts[b].pc = "l170" /\ HasFailed(attempts[b])
        /\ proc = "fatal"

(* ------------------------------- C11 ---------------------------------- *)

\* C11: the process ends only on an interrupt signal; in particular no
\* outcome of a deploy attempt (a non-zero exit, a timeout) ends it.
C11_RunsUntilInterrupt == proc \in {"running", "stopped"}

(* ------------------------------- C12 ---------------------------------- *)

\* The goroutine of attempt a has not returned.
Unfinished(a) == attempts[a].pc /= "end"

\* The commands of an authorized member that name a key of the dictionary.
NextCommands ==
    {m \in Messages :
        /\ ~m.bot
        /\ m.channel = "deployments"
        /\ m.member = [err |-> FALSE, roles |-> {"member", "deployer"}]
        /\ m.content \in {<<"!", "deploy", " ", "main", " ", "k1">>,
                          <<"!", "Deploy", " ", "Main", " ", "k2", " ", "extra">>}}

\* C12: two valid deploy commands issued back to back run as independent
\* concurrent units: while the process runs, right after a valid command the
\* handler can validate the next valid command and start its executor
\* whatever the executors before it are doing (as long as the model's bound
\* on attempts leaves room), and every executor that has not returned can
\* take its next step whatever the others are doing.
C12_Independent ==
    proc = "running" =>
        /\ Handled /\ last[1].spawn /\ Len(attempts) < MaxAttempts =>
              \A m \in NextCommands : PassesEveryCheck(m) =>
                  ENABLED (deploy(m, FALSE) /\ Len(attempts') = Len(attempts) + 1)
        /\ \A a \in Ids : Unfinished(a) => ENABLED Executor(a)

\* Two subprocesses run at the same time, the second one started after the
\* first and before the first has ended.
C12_Witness ==
    /\ proc = "running"
    /\ Len(attempts) >= 2
    /\ attempts[1].pc = "l166"
    /\ attempts[2].pc = "l166"

(* ------------------------------- C13 ---------------------------------- *)

\* The branch token as typed equals the configured branch up to letter case.
SameBranchUpToCase(m) == ToLower(Tokens(m)[2]) = ToLower(data.Branch)

\* C13: the branch argument is case-insensitive: whatever the configured
\* branch, an authorized deploy command with a key of the dictionary and a
\* well-formed branch token equal to the configured branch up to letter case
\* passes the branch check and is executed.
C13_BranchCaseInsensitive ==
    Handled /\ DeployCommand(LastMsg) /\ KeyTok(LastMsg) \in DOMAIN Dictionary
            /\ MatchString(Tokens(LastMsg)[2]) /\ SameBranchUpToCase(LastMsg) =>
        last[1].spawn

(* ------------------------------- C14 ---------------------------------- *)

\* C14: no message handling and no executor step changes the Command
\* Dictionary or the Configuration: every key keeps the template it had
\* when the step began, and so the one it had at startup.
C14_ConfigurationFrozen ==
    [][/\ data' = data
       /\ DOMAIN Commands' = DOMAIN Commands
       /\ \A k \in DOMAIN Commands : Commands'[k] = Commands[k]]_vars

\* Both keys have been looked up and their commands run to the end.
C14_Witness ==
    /\ Len(attempts) >= 2
    /\ attempts[1].pc = "end"
    /\ attempts[2].pc = "end"
    /\ attempts[1].key /= attempts[2].key
    /\ Commands = Dictionary

(* ------------------------------- C15 ---------------------------------- *)

\* The subprocess of attempt a has ended: cmd.CombinedOutput has returned.
Ended(a) == attempts[a].result /= "none"

\* C15: for every valid deploy command the "in progress" acknowledgement is
\* the first message, sent by the handler before the executor exists and so
\* before the subprocess is started, and the final success or failure message
\* is sent only once the subprocess has ended.
C15_AckFirstFinalLast ==
    /\ Handled /\ last[1].spawn => last[1].replies = <<InProgressMsg>>
    /\ \A a \in Ids :
          /\ Len(attempts[a].chat) >= 1
          /\ attempts[a].chat[1] = InProgressMsg
          /\ Len(attempts[a].chat) >= 2 => Started(a) /\ Ended(a)
          /\ Ended(a) => Started(a)

C15_Witness ==
    \E a \in Ids :
        /\ Len(attempts[a].chat) = 2
        /\ Ended(a)
        /\ \E b \in Ids : ~Started(b)

(* ------------------------------- C16 ---------------------------------- *)

InvalidBranchReply(m) == <<"Invalid branch (">> \o BranchTok(m) \o <<") specified.">>
InvalidKeyReply(m) == <<"Invalid key (">> \o KeyTok(m) \o <<") specified.">>

\* C16 as stated: every authorized deploy command with at least 3 tokens
\* whose branch token is malformed or differs from the configured branch gets
\* one "invalid branch" reply and one failed audit notification, also when
\* its key is not in the dictionary.
C16_Original ==
    Handled /\ DeployCommand(LastMsg) /\ ~BranchAllowed(LastMsg) =>
        /\ last[1].replies = <<InvalidBranchReply(LastMsg)>>
        /\ last[1].hooks = <<FailedCard(BranchTok(LastMsg))>>

\* C16 amended: such a command gets one "invalid branch" reply and one failed
\* audit notification when its key is in the dictionary; when the key is not,
\* the key check, which comes first, ends the handling with one "invalid key"
\* reply and no audit notification.  No subprocess is started either way.
C16_KeyCheckedFirst ==
    Handled /\ DeployCommand(LastMsg) /\ ~BranchAllowed(LastMsg) =>
        /\ ~last[1].spawn
        /\ IF KeyTok(LastMsg) \in DOMAIN Dictionary
           THEN /\ last[1].replies = <<InvalidBranchReply(LastMsg)>>
                /\ last[1].hooks = <<FailedCard(BranchTok(LastMsg))>>
           ELSE /\ last[1].replies = <<InvalidKeyReply(LastMsg)>>
                /\ last[1].hooks = <<>>

C16_Witness ==
    /\ Handled
    /\ DeployCommand(LastMsg)
    /\ BranchTok(LastMsg) = <<"dev">>
    /\ KeyTok(LastMsg) = <<"nokey">>
    /\ data.Branch = <<"main">>
    /\ Len(last[1].replies) = 1

(* ------------------------------- C17 ---------------------------------- *)

Whitespace == {" ", TAB}

\* The non-empty pieces of s between runs of whitespace.
RECURSIVE FieldsFrom(_, _, _)
FieldsFrom(s, i, cur) ==
    IF i > Len(s) THEN (IF cur = <<>> THEN <<>> ELSE <<cur>>)
    ELSE IF s[i] \in Whitespace
         THEN (IF cur = <<>> THEN <<>> ELSE <<cur>>) \o FieldsFrom(s, i + 1, <<>>)
    ELSE FieldsFrom(s, i + 1, Append(cur, s[i]))

Fields(s) == FieldsFrom(s, 1, <<>>)

\* C17: the parser splits the text after "!" on whitespace: for a message
\* with at least three whitespace-separated tokens, the command, branch and
\* key the handler works with are the first three of them, whatever the
\* whitespace between them and whatever follows the third.
C17_WhitespaceSplit ==
    Handled /\ Authorized(LastMsg) =>
        LET fields == Fields(TrimPrefix(LastMsg.content))
            args == Args(LastMsg) IN
        Len(fields) >= 3 =>
            /\ Len(args) >= 3
            /\ SubSeq(args, 1, 3) = SubSeq(fields, 1, 3)

(* ------------------------------- C18 ---------------------------------- *)

\* C18: an error returned by a chat send or by the webhook post changes
\* nothing else: no sink call is repeated, the messages and the card of an
\* attempt follow from the exit status of its subprocess alone, a valid
\* command whose acknowledgement could not be sent is executed all the same,
\* and an executor that has not returned can still take its next step.
C18_SinkErrorsIgnored ==
    /\ Handled /\ last[1].err =>
          /\ Len(last[1].replies) <= 1 /\ Len(last[1].hooks) <= 1
          /\ last[1].spawn = PassesEveryCheck(LastMsg)
    /\ \A a \in Ids : attempts[a].err =>
          LET at == attempts[a] IN
          /\ Len(at.chat) <= 2 /\ Len(at.hooks) <= 1
          /\ HasSuccess(at) => at.result = "exit0"
          /\ HasFailed(at) => at.result \in {"exit1", "timeout"}
          /\ at.pc = "end" => at.chat = <<InProgressMsg, SuccessMsg>>
                              /\ at.hooks = <<SuccessCard>>
          /\ at.pc = "l170" => Len(at.chat) = 2 /\ at.hooks = <<FailedCard(data.Branch)>>
          /\ proc = "running" /\ Unfinished(a) => ENABLED Executor(a)

\* An executor has returned after a success although a sink call failed,
\* while another one has reported a failure although a sink call failed.
C18_Witness ==
    \E a, b \in Ids :
        /\ attempts[a].err /\ attempts[a].pc = "end"
        /\ attempts[b].err /\ attempts[b].pc = "l170"

(* ------------------------------- C19 ---------------------------------- *)

\* C19: any two accepted deploy commands that name the same key execute the
\* same command line, whoever their authors are and however the letter case
\* of their command and branch tokens and their trailing tokens differ.
C19_SameKeySameCommandLine ==
    \A a, b \in Ids :
        /\ Started(a) /\ Started(b)
        /\ KeyTok(attempts[a].msg) = KeyTok(attempts[b].msg)
        => attempts[a].cmdline = attempts[b].cmdline

C19_Witness ==
    \E a, b \in Ids :
        /\ Started(a) /\ Started(b)
        /\ KeyTok(attempts[a].msg) = <<"k1">>
        /\ KeyTok(attempts[b].msg) = <<"k1">>
        /\ attempts[a].msg.content = <<"!", "deploy", " ", "main", " ", "k1">>
        /\ attempts[b].msg.content = <<"!", "Deploy", " ", "Main", " ", "k1", " ", "extra">>
        /\ attempts[a].msg.member /= attempts[b].msg.member
        /\ attempts[a].cmdline /= <<>>

(* ------------------------------- C20 ---------------------------------- *)

\* The message passes the Authorization Gate and its first token, lower-
\* cased, is not "deploy".
OtherCommand(m) == Authorized(m) /\ CommandTok(m) /= <<"deploy">>

\* C20: a message that passes the Authorization Gate and whose first token is
\* not "deploy" in any letter case starts no subprocess and triggers no
\* webhook call; it gets exactly one "Invalid command" reply when it has at
\* least 3 space-separated tokens and no reply at all when it has fewer.
C20_OtherCommandRejected ==
    /\ Handled /\ OtherCommand(LastMsg) =>
        /\ ~last[1].spawn
        /\ last[1].hooks = <<>>
        /\ Len(Tokens(LastMsg)) >= 3 =>
               last[1].replies = <<InvalidCommand(CommandTok(LastMsg))>>
        /\ Len(Tokens(LastMsg)) < 3 => last[1].replies = <<>>
    /\ \A a \in Ids : ~OtherCommand(attempts[a].msg)

C20_Witness ==
    /\ Handled
    /\ OtherCommand(LastMsg)
    /\ LastMsg.content = <<"!", "status", " ", "main", " ", "k1">>
    /\ last[1].replies = <<InvalidCommand(<<"status">>)>>

====
